---------------------------- MODULE Spec2Model ----------------------------
(***************************************************************************)
(* State machine of the MCAT study tool front end                          *)
(* (src/mcat-frontend/src/App.js): the App component's React state, the    *)
(* find_resources requests it has in flight, and the handlers that issue   *)
(* and settle them.                                                        *)
(*                                                                         *)
(* JavaScript strings are sequences of one-character strings.  Values that *)
(* may be null / undefined / of another type are tagged records.           *)
(***************************************************************************)
EXTENDS Integers, Sequences, FiniteSets, TLC

VARIABLES
    binderData,      \* useState(null)            App.js:101
    selectedTopic,   \* useState('')              App.js:102
    currentSubject,  \* useState('')              App.js:103
    subtopic,        \* useState('')              App.js:104
    resources,       \* useState([])              App.js:105
    isLoading,       \* useState(false)           App.js:106
    error,           \* useState(null)            App.js:107
    binderFetch,     \* position of the mount effect's fetch, App.js:110-115
    inflight,        \* find_resources requests awaiting their outcome
    nextId,          \* number of find_resources requests issued so far
    lastClick,       \* history: arguments of the most recent topic click
    resourcesFrom,   \* history: the request whose response set resources
    last             \* history: the step taken last

vars == << binderData, selectedTopic, currentSubject, subtopic, resources,
           isLoading, error, binderFetch, inflight, nextId, lastClick,
           resourcesFrom, last >>

---------------------------------------------------------------------------
(* Bounds of the model *)

\* total number of find_resources requests issued in one run
MaxRequests == 3
\* longest resources array a response body carries
MaxRespLen == 9

---------------------------------------------------------------------------
(* JavaScript values *)

Null == [t |-> "null"]
Undefined == [t |-> "undefined"]
Str(s) == [t |-> "str", s |-> s]
Arr(items) == [t |-> "arr", items |-> items]
EmptyObj == [t |-> "obj"]

\* JavaScript truthiness, as used by `||`, `?:`, `!` and `if`
Truthy(v) ==
    CASE v.t = "null" -> FALSE
      [] v.t = "undefined" -> FALSE
      [] v.t = "str" -> v.s # << >>
      [] OTHER -> TRUE

\* a || b
Or(a, b) == IF Truthy(a) THEN a ELSE b

RECURSIVE Concat(_)
\* concatenation of a sequence of strings
Concat(ss) == IF ss = << >> THEN << >> ELSE Head(ss) \o Concat(Tail(ss))

\* s.includes(sub)
Contains(s, sub) ==
    \E i \in 1..(Len(s) - Len(sub) + 1) : SubSeq(s, i, i + Len(sub) - 1) = sub

---------------------------------------------------------------------------
(* The request URL, App.js:122 *)

Limit == 8

Digits == << "0", "1", "2", "3", "4", "5", "6", "7", "8", "9" >>

\* encodeURIComponent on one character: unreserved characters are kept,
\* every other character becomes its percent-encoded UTF-8 byte
EncodeChar(c) ==
    CASE c = " " -> << "%", "2", "0" >>
      [] c = "&" -> << "%", "2", "6" >>
      [] c = "=" -> << "%", "3", "D" >>
      [] c = "%" -> << "%", "2", "5" >>
      [] c = "?" -> << "%", "3", "F" >>
      [] c = ":" -> << "%", "3", "A" >>
      [] OTHER -> << c >>

encodeURIComponent(s) == Concat([i \in 1..Len(s) |-> EncodeChar(s[i])])

UrlBase ==
    << "h","t","t","p",":","/","/","l","o","c","a","l","h","o","s","t",":",
       "8","0","0","0","/","f","i","n","d","_","r","e","s","o","u","r","c",
       "e","s","?","s","u","b","j","e","c","t","=" >>
TopicParam == << "&","t","o","p","i","c","=" >>
SubtopicParam == << "&","s","u","b","t","o","p","i","c","=" >>
LimitParam == << "&","l","i","m","i","t","=" >>

ApiUrl_AlwaysSubtopic(subject, topic, subtopicValue) ==
    UrlBase \o encodeURIComponent(subject)
      \o TopicParam \o encodeURIComponent(topic)
      \o SubtopicParam \o encodeURIComponent(subtopicValue)
      \o LimitParam \o << Digits[Limit + 1] >>

ApiUrl(subject, topic, subtopicValue) ==
    UrlBase \o encodeURIComponent(subject)
      \o TopicParam \o encodeURIComponent(topic)
      \o (IF Truthy(Str(subtopicValue))
            THEN SubtopicParam \o encodeURIComponent(subtopicValue)
            ELSE << >>)
      \o LimitParam \o << Digits[Limit + 1] >>

\* the request carries a subtopic parameter
HasSubtopicParam(url) == Contains(url, SubtopicParam)

---------------------------------------------------------------------------
(* Inputs: the binder file, what the user types, what a request ends in *)

Bio == << "B", "i", "o" >>
Chem == << "C", "h", "e", "m" >>
Cell == << "C", "e", "l", "l", " ", "C", "y", "c", "l", "e" >>
Enz == << "E", "n", "z" >>

\* a binder_content.json with a 'sections' array
BinderJson ==
    [t |-> "obj",
     sections |-> Arr(<< [title |-> Bio, subtopics |-> << Cell >>],
                         [title |-> Chem, subtopics |-> << Enz >>] >>)]
\* a binder_content.json in another shape, without 'sections'
BinderJsonNoSections == [t |-> "obj", sections |-> Undefined]

BinderBodies == { BinderJson, BinderJsonNoSections, Null }

\* text of the refine-search input at submit
SearchInputs == { << >>, << "M", "i" >> }

\* resource entries are named by their _id
ResourceLists ==
    { << >>, << 1, 2 >>, << 2, 1 >>, << 1, 1 >>, [i \in 1..MaxRespLen |-> i] }

StatusNotFound == << "N", "o", "t", " ", "F", "o", "u", "n", "d" >>
DetailUnknown == << "U", "n", "k", "n", "o", "w", "n" >>

\* parsed 2xx bodies
OkValues ==
    { Null }
      \cup { [t |-> "obj", detail |-> Undefined, resources |-> r]
             : r \in { Undefined, EmptyObj } \cup { Arr(l) : l \in ResourceLists } }
\* parsed non-2xx bodies
ErrValues ==
    { Null }
      \cup { [t |-> "obj", detail |-> d, resources |-> Undefined]
             : d \in { Undefined, Str(<< >>), Str(DetailUnknown) } }

ParseFail == [parse |-> "fail"]
Parsed(v) == [parse |-> "ok", value |-> v]

\* what one fetch(apiUrl) ends in
Outcomes ==
    { [kind |-> "reject"] }
      \cup { [kind |-> "response", ok |-> TRUE, statusText |-> << "O", "K" >>, body |-> b]
             : b \in { ParseFail } \cup { Parsed(v) : v \in OkValues } }
      \cup { [kind |-> "response", ok |-> FALSE, statusText |-> StatusNotFound, body |-> b]
             : b \in { ParseFail } \cup { Parsed(v) : v \in ErrValues } }

---------------------------------------------------------------------------
(* Messages of the errors the try block can throw *)

ApiErrorPrefix == << "A", "P", "I", " ", "E", "r", "r", "o", "r", ":", " " >>
\* TypeError of a fetch that got no response
FetchFailedMsg == << "F", "a", "i", "l", "e", "d", " ", "t", "o", " ", "f", "e", "t", "c", "h" >>
\* SyntaxError of response.json() on a body that is not JSON
JsonSyntaxMsg == << "U", "n", "e", "x", "p", "e", "c", "t", "e", "d", " ", "t", "o", "k", "e", "n" >>
\* TypeError of reading a property of null
NullPropertyMsg == << "C", "a", "n", "n", "o", "t", " ", "r", "e", "a", "d" >>

\* history values: no request answered resources / request r did
NoRequest == [t |-> "none"]
AnswerOf(r) == [t |-> "req", id |-> r.id, url |-> r.url]

Throw(message) == [thrown |-> TRUE, message |-> message]
Return(value) == [thrown |-> FALSE, value |-> value]


---------------------------------------------------------------------------
(* fetchResources, App.js:117-138 *)

\* lines 125-131: what the try block ends in for the outcome o of the fetch
TryBlock_DropLast(o) ==
    IF o.kind = "reject" THEN Throw(FetchFailedMsg)
    ELSE IF o.body.parse = "fail" THEN Throw(JsonSyntaxMsg)
    ELSE IF o.body.value = Null THEN Throw(NullPropertyMsg)
    ELSE IF ~o.ok
      THEN Throw(ApiErrorPrefix \o Or(o.body.value.detail, Str(o.statusText)).s)
    ELSE LET r == Or(o.body.value.resources, Arr(<< >>)) IN
         Return(IF r.t = "arr" /\ Len(r.items) > 1
                  THEN Arr(SubSeq(r.items, 1, Len(r.items) - 1)) ELSE r)

TryBlock_Reversed(o) ==
    IF o.kind = "reject" THEN Throw(FetchFailedMsg)
    ELSE IF o.body.parse = "fail" THEN Throw(JsonSyntaxMsg)
    ELSE IF o.body.value = Null THEN Throw(NullPropertyMsg)
    ELSE IF ~o.ok
      THEN Throw(ApiErrorPrefix \o Or(o.body.value.detail, Str(o.statusText)).s)
    ELSE LET r == Or(o.body.value.resources, Arr(<< >>)) IN
         Return(IF r.t = "arr"
                  THEN Arr([i \in 1..Len(r.items) |-> r.items[Len(r.items) + 1 - i]])
                  ELSE r)

TryBlock(o) ==
    IF o.kind = "reject" THEN Throw(FetchFailedMsg)              \* 125
    ELSE IF o.body.parse = "fail" THEN Throw(JsonSyntaxMsg)      \* 127, 130
    ELSE IF o.body.value = Null THEN Throw(NullPropertyMsg)      \* 128, 131
    ELSE IF ~o.ok                                                \* 126
      THEN Throw(ApiErrorPrefix \o Or(o.body.value.detail, Str(o.statusText)).s)
    ELSE Return(Or(o.body.value.resources, Arr(<< >>)))          \* 131

\* lines 118-125: the state updates and the request, up to the await
fetchResources_KeepResources(subject, topic, subtopicValue) ==
    /\ isLoading' = TRUE
    /\ error' = Null
    /\ resources' = resources
    /\ resourcesFrom' = resourcesFrom
    /\ inflight' = inflight \cup { [id |-> nextId,
                                    url |-> ApiUrl(subject, topic, subtopicValue),
                                    alone |-> inflight = { }] }
    /\ nextId' = nextId + 1

fetchResources(subject, topic, subtopicValue) ==
    /\ isLoading' = TRUE
    /\ error' = Null
    /\ resources' = Arr(<< >>)
    /\ resourcesFrom' = NoRequest
    /\ inflight' = inflight \cup { [id |-> nextId,
                                    url |-> ApiUrl(subject, topic, subtopicValue),
                                    alone |-> inflight = { }] }
    /\ nextId' = nextId + 1

\* lines 125-137, with the stored subtopic reset when the request fails
Settle_ResetsSubtopic(r, o) ==
    /\ r \in inflight
    /\ inflight' = inflight \ { r }
    /\ LET res == TryBlock(o) IN
         /\ resources' = IF res.thrown THEN resources ELSE res.value
         /\ resourcesFrom' = IF res.thrown THEN resourcesFrom ELSE AnswerOf(r)
         /\ error' = IF res.thrown THEN Str(res.message) ELSE error
         /\ subtopic' = IF res.thrown THEN << >> ELSE subtopic
         /\ isLoading' = FALSE
    /\ last' = [ev |-> "settle", req |-> r, outcome |-> o]
    /\ UNCHANGED << binderData, selectedTopic, currentSubject,
                    binderFetch, nextId, lastClick >>

\* lines 125-137, after the await: try, catch and finally for request r
Settle_NoFinally(r, o) ==
    /\ r \in inflight
    /\ inflight' = inflight \ { r }
    /\ LET res == TryBlock(o) IN
         /\ resources' = IF res.thrown THEN resources ELSE res.value
         /\ resourcesFrom' = IF res.thrown THEN resourcesFrom ELSE AnswerOf(r)
         /\ error' = IF res.thrown THEN Str(res.message) ELSE error
         /\ isLoading' = IF res.thrown THEN isLoading ELSE FALSE
    /\ last' = [ev |-> "settle", req |-> r, outcome |-> o]
    /\ UNCHANGED << binderData, selectedTopic, currentSubject, subtopic,
                    binderFetch, nextId, lastClick >>

Settle(r, o) ==
    /\ r \in inflight
    /\ inflight' = inflight \ { r }
    /\ LET res == TryBlock(o) IN
         /\ resources' = IF res.thrown THEN resources ELSE res.value   \* 131
         /\ resourcesFrom' = IF res.thrown THEN resourcesFrom ELSE AnswerOf(r)
         /\ error' = IF res.thrown THEN Str(res.message) ELSE error   \* 133
         /\ isLoading' = FALSE                                         \* 136
    /\ last' = [ev |-> "settle", req |-> r, outcome |-> o]
    /\ UNCHANGED << binderData, selectedTopic, currentSubject, subtopic,
                    binderFetch, nextId, lastClick >>

---------------------------------------------------------------------------
(* The views, App.js:6-97 *)

\* BinderView, lines 8-32: the (subject, topic) pairs of the <li> rendered
BinderItems ==
    IF ~Truthy(binderData) \/ ~Truthy(binderData.sections) THEN { }
    ELSE LET secs == binderData.sections.items IN
         UNION { { << secs[i].title, secs[i].subtopics[j] >>
                     : j \in 1..Len(secs[i].subtopics) } : i \in 1..Len(secs) }

\* ResourcesView, lines 54-66 without the test of selectedTopic
View_NoTopicTest ==
    IF isLoading THEN "loading"
    ELSE IF Truthy(error) THEN "error"
    ELSE "results"

\* ResourcesView, lines 54-74 without the test of error
View_NoErrorTest ==
    IF isLoading THEN "loading"
    ELSE IF ~Truthy(Str(selectedTopic)) THEN "placeholder"
    ELSE "results"

\* ResourcesView, lines 54-74: which of its four returns is rendered
View ==
    IF isLoading THEN "loading"
    ELSE IF Truthy(error) THEN "error"
    ELSE IF ~Truthy(Str(selectedTopic)) THEN "placeholder"
    ELSE "results"

\* ResourcesView, lines 86-94: the keys of the cards listed, in order;
\* the empty sequence stands for the 'No resources found' paragraph
Cards ==
    IF resources.t = "arr" /\ Len(resources.items) > 0
      THEN resources.items
      ELSE << >>

---------------------------------------------------------------------------
(* The handlers, App.js:110-115 and 140-150 *)

\* mount effect, lines 111-113: binder_content.json arrived and parsed
BinderLoaded(data) ==
    /\ binderFetch = "pending"
    /\ binderData' = data
    /\ binderFetch' = "done"
    /\ last' = [ev |-> "binder"]
    /\ UNCHANGED << selectedTopic, currentSubject, subtopic, resources,
                    isLoading, error, inflight, nextId, lastClick,
                    resourcesFrom >>

\* mount effect, line 114: the fetch or the parse failed
BinderFailed ==
    /\ binderFetch = "pending"
    /\ binderFetch' = "failed"
    /\ last' = [ev |-> "binder"]
    /\ UNCHANGED << binderData, selectedTopic, currentSubject, subtopic,
                    resources, isLoading, error, inflight, nextId,
                    lastClick, resourcesFrom >>

\* lines 140-145, run by the onClick of a binder item (line 25)
handleTopicClick(subject, topic) ==
    /\ << subject, topic >> \in BinderItems
    /\ nextId < MaxRequests
    /\ selectedTopic' = topic
    /\ currentSubject' = subject
    /\ subtopic' = << >>
    /\ fetchResources(subject, topic, << >>)
    /\ lastClick' = [t |-> "click", subject |-> subject, topic |-> topic,
                     url |-> ApiUrl(subject, topic, << >>)]
    /\ last' = [ev |-> "click", id |-> nextId]
    /\ UNCHANGED << binderData, binderFetch >>

\* lines 147-150, run by the form's onSubmit (lines 68-72, 77)
handleSubtopicSearch(newSubtopic) ==
    /\ View = "results"
    /\ nextId < MaxRequests
    /\ subtopic' = newSubtopic
    /\ fetchResources(currentSubject, selectedTopic, newSubtopic)
    /\ last' = [ev |-> "refine", id |-> nextId, text |-> newSubtopic]
    /\ UNCHANGED << binderData, binderFetch, selectedTopic, currentSubject,
                    lastClick >>

---------------------------------------------------------------------------
(* The state machine *)

Init ==
    /\ binderData = Null
    /\ selectedTopic = << >>
    /\ currentSubject = << >>
    /\ subtopic = << >>
    /\ resources = Arr(<< >>)
    /\ isLoading = FALSE
    /\ error = Null
    /\ binderFetch = "pending"
    /\ inflight = { }
    /\ nextId = 0
    /\ lastClick = Null
    /\ resourcesFrom = NoRequest
    /\ last = [ev |-> "init"]

BinderLoad == \E data \in BinderBodies : BinderLoaded(data)
TopicClick == \E item \in BinderItems : handleTopicClick(item[1], item[2])
RefineSubmit == \E text \in SearchInputs : handleSubtopicSearch(text)
SettleAny == \E r \in inflight, o \in Outcomes : Settle(r, o)

Next ==
    \/ BinderLoad
    \/ BinderFailed
    \/ TopicClick
    \/ RefineSubmit
    \/ SettleAny

Spec == Init /\ [][Next]_vars

\* every request's outcome arrives
LiveSpec == Spec /\ WF_vars(SettleAny)

---------------------------------------------------------------------------
(* Vocabulary of the properties *)

\* the step taken last processed the outcome of a request
Settled == last.ev = "settle"
\* ... and that outcome was a response that is not ok
SettledNotOk == Settled /\ last.outcome.kind = "response" /\ ~last.outcome.ok
\* ... and that outcome was an ok response whose JSON body is an object
SettledOk ==
    /\ Settled
    /\ last.outcome.kind = "response"
    /\ last.outcome.ok
    /\ last.outcome.body.parse = "ok"
    /\ last.outcome.body.value # Null
\* the resources field of that body
ResponseResources == last.outcome.body.value.resources
\* the step taken last issued a request
Issued == last.ev \in { "click", "refine" }
\* the request that step issued
IssuedRequest == CHOOSE r \in inflight : r.id = last.id

\* the text a failed response offers: the body's detail, else the status text
ServerDetail(o) ==
    IF o.body.parse = "ok" /\ o.body.value # Null /\ Truthy(o.body.value.detail)
      THEN o.body.value.detail.s
      ELSE o.statusText

\* the limit a request url carries
LimitOf(url) == CHOOSE n \in 0..9 : Contains(url, LimitParam \o << Digits[n + 1] >>)

---------------------------------------------------------------------------
(* C1 - C10 *)

\* C1: when a request whose response is not ok settles, error is non-null
\* and carries the server's detail (or the status text), the response has
\* not populated resources, and isLoading is false.
C1_NotOkCarriesDetail ==
    SettledNotOk =>
        /\ Truthy(error)
        /\ Contains(error.s, ApiErrorPrefix \o ServerDetail(last.outcome))
        /\ resourcesFrom # AnswerOf(last.req)
        /\ ~isLoading

\* C2: a request issued while no other request was in flight that succeeds
\* with an empty resources array leaves error = null, isLoading = false,
\* resources = [] and the 'No resources found' paragraph on screen.
C2_EmptySuccessIsNoError ==
    (SettledOk /\ last.req.alone /\ ResponseResources = Arr(<< >>)) =>
        /\ error = Null
        /\ ~isLoading
        /\ resources = Arr(<< >>)
        /\ View = "results"
        /\ Cards = << >>

\* C3: a request issued by a refinement submit is issued after a topic click
\* and carries the subject and topic of the most recent click together with
\* the text just submitted.
C3_RefineCarriesLastClick ==
    last.ev = "refine" =>
        /\ lastClick # Null
        /\ IssuedRequest.url = ApiUrl(lastClick.subject, lastClick.topic, last.text)

C3_Witness ==
    /\ last.ev = "refine"
    /\ last.text = << "M", "i" >>
    /\ nextId = 3
    /\ lastClick # Null
    /\ lastClick.topic = Enz
    /\ Cardinality(inflight) = 2

\* C4: a request carries a subtopic parameter iff the subtopic value given
\* to fetchResources is non-empty: never after a topic click, which also
\* resets subtopic to '', and a refinement with empty text issues the url
\* of the plain (subject, topic) query.
C4_SubtopicParamIffNonEmpty ==
    /\ last.ev = "click" =>
          /\ subtopic = << >>
          /\ ~HasSubtopicParam(IssuedRequest.url)
    /\ last.ev = "refine" =>
          /\ HasSubtopicParam(IssuedRequest.url) <=> last.text # << >>
          /\ last.text = << >> => IssuedRequest.url = lastClick.url

C4_Witness ==
    /\ last.ev = "refine"
    /\ last.text = << >>
    /\ nextId = 3
    /\ IssuedRequest.url = lastClick.url
    /\ ~HasSubtopicParam(IssuedRequest.url)

\* C5 as claimed: after a successful request the number of resources held
\* and displayed is at most the limit the request sent.
C5_AtMostLimit ==
    (SettledOk /\ resources.t = "arr") =>
        /\ Len(resources.items) <= LimitOf(last.req.url)
        /\ Len(Cards) <= LimitOf(last.req.url)

\* C5 as amended: after a successful request the number of resources held
\* is the number of entries of the response's resources array, so it is at
\* most the limit sent whenever the response holds at most that many.
C5_CountIsResponseCount ==
    (SettledOk /\ ResponseResources.t = "arr") =>
        /\ resources.t = "arr"
        /\ Len(resources.items) = Len(ResponseResources.items)
        /\ Len(ResponseResources.items) <= LimitOf(last.req.url)
              => Len(resources.items) <= Limit

C5_Witness ==
    /\ SettledOk
    /\ ResponseResources.t = "arr"
    /\ Len(ResponseResources.items) > Limit
    /\ View = "results"
    /\ Len(Cards) > Limit

\* C6: after a successful response is processed, the resources held and the
\* cards displayed are the response's resources sequence, in its order (the
\* empty list when the body has no resources).
C6_ResourcesAreResponse ==
    SettledOk =>
        /\ ResponseResources.t = "arr" => resources = ResponseResources
        /\ ResponseResources.t = "undefined" => resources = Arr(<< >>)
        /\ (ResponseResources.t = "arr" /\ View = "results")
              => Cards = ResponseResources.items

C6_Witness ==
    /\ SettledOk
    /\ ResponseResources = Arr(<< 2, 1 >>)
    /\ View = "results"
    /\ Cards = << 2, 1 >>

\* C7: once a request has been issued, whenever isLoading is false and error
\* is null the resources held answer the request for the current
\* (currentSubject, selectedTopic, subtopic).
C7_ResourcesAnswerSelection ==
    (nextId > 0 /\ ~isLoading /\ error = Null) =>
        /\ resourcesFrom # NoRequest
        /\ resourcesFrom.url = ApiUrl(currentSubject, selectedTopic, subtopic)

\* C8: isLoading is true whenever a find_resources request is in flight.
C8_LoadingWhileInFlight == inflight # { } => isLoading

\* C9: right after a topic click or a refinement submit, isLoading = true,
\* error = null and resources = [].
C9_IssueClearsState ==
    Issued =>
        /\ isLoading
        /\ error = Null
        /\ resources = Arr(<< >>)

C9_Witness ==
    /\ last.ev = "refine"
    /\ inflight = { IssuedRequest }
    /\ isLoading
    /\ resources = Arr(<< >>)

\* C10: once loading, the app comes to rest with every request settled and
\* isLoading = false, whatever the outcomes are.
C10_LoadingEnds == isLoading ~> (inflight = { } /\ ~isLoading)

C10_Witness ==
    /\ Settled
    /\ last.outcome.kind = "reject"
    /\ inflight = { }
    /\ nextId = MaxRequests
    /\ ~isLoading

---------------------------------------------------------------------------
(* C11 - C14 *)

\* C11: a non-null error implies an empty resources list: an error and a
\* non-empty result list are never held at the same time.
C11_ErrorImpliesNoResources ==
    error # Null => ~(resources.t = "arr" /\ Len(resources.items) > 0)

\* C12: the form and the resource list are rendered only when isLoading is
\* false, error is null and selectedTopic is non-empty; loading comes before
\* error, error before the placeholder.  So a refinement is submitted only
\* from such a state, and from a state showing an error a request is issued
\* only by a topic click.
C12_FormOnlyInResultsView ==
    /\ [](/\ View = "results" =>
               (~isLoading /\ error = Null /\ selectedTopic # << >>)
          /\ isLoading => View = "loading"
          /\ (~isLoading /\ error # Null) => View = "error"
          /\ (~isLoading /\ error = Null /\ selectedTopic = << >>)
               => View = "placeholder")
    /\ [][(nextId' # nextId /\ last'.ev = "refine")
             => (~isLoading /\ error = Null /\ selectedTopic # << >>)]_vars
    /\ [][(nextId' # nextId /\ ~isLoading /\ error # Null)
             => last'.ev = "click"]_vars

C12_Witness ==
    /\ View = "error"
    /\ selectedTopic # << >>
    /\ inflight = { }
    /\ nextId < MaxRequests
    /\ BinderItems # { }

\* C13: processing the outcome of a request changes only resources, error
\* and isLoading; selectedTopic, currentSubject and subtopic change only
\* in a step that issues a request (topic click, refinement submit), and
\* binderData only in the binder load.
C13_SettleFrame ==
    /\ [][(inflight' # inflight /\ nextId' = nextId)
            => UNCHANGED << selectedTopic, currentSubject, subtopic, binderData >>]_vars
    /\ [][(selectedTopic' # selectedTopic \/ currentSubject' # currentSubject
             \/ subtopic' # subtopic)
            => (nextId' = nextId + 1 /\ last'.ev \in { "click", "refine" })]_vars
    /\ [][binderData' # binderData => (binderFetch = "pending" /\ last'.ev = "binder")]_vars

C13_Witness ==
    /\ Settled
    /\ subtopic = << "M", "i" >>
    /\ selectedTopic = Enz
    /\ currentSubject = Chem
    /\ binderData = BinderJson
    /\ resourcesFrom = AnswerOf(last.req)

\* C14: in every reachable state resources is a sequence, never null,
\* undefined or a value of another type, so resources.length is a number.
C14_ResourcesIsSequence == resources.t = "arr"

===========================================================================
